---- MODULE Spec2Model ----
(***************************************************************************)
(* Model of the Equinox race bot: src/bot/equinox_race_bot.py (the         *)
(* EquinoxRaceBot monitoring loop, its per-race tasks, the eligibility     *)
(* predicates and the transaction lock) and src/bot/server.py (BotRunner). *)
(*                                                                         *)
(* Time is kept in integer microseconds: `now` is the value of             *)
(* time.time() scaled by US_PER_SEC, so int(time.time() * 1_000_000) is    *)
(* `now` itself and a difference of d seconds is d * US_PER_SEC.           *)
(* A Python Optional is a sequence of length 0 (None) or 1.                *)
(* CancelledError is a BaseException (Python >= 3.8): `except Exception`   *)
(* does not catch it.                                                      *)
(***************************************************************************)
EXTENDS Integers, Sequences, FiniteSets, TLC

\* ------------------------------------------------------------------ bounds
MaxRaceId == 2      \* race ids are 1..MaxRaceId
MaxActive == 2      \* longest active-set sequence the contract returns
MaxTicks == 1       \* number of clock advances in one behaviour
BootSec == 10       \* wall clock (seconds) when the process starts

\* ------------------------------------------------------- program constants
RACE_ADVANCE_COOLDOWN == 8
US_PER_SEC == 1000000
QUICK == 1
STATE_ARITY == 13

BOT_CHECK_INTERVAL == 5

CheckIntervalUs == BOT_CHECK_INTERVAL * US_PER_SEC

CooldownUs == RACE_ADVANCE_COOLDOWN * US_PER_SEC
BootTime == BootSec * US_PER_SEC

RaceIds == 1..MaxRaceId
None == <<>>
Some(x) == <<x>>

\* The clock moves by one microsecond, by the cooldown, or by one microsecond
\* less, so that T + 1us, T + cooldown - 1us and T + cooldown are all reached
\* from a time T.
TickSteps == {1, CooldownUs - 1, CooldownUs}

\* ---------------------------------------------------------------- RaceState
\* class RaceState: the fields the decisions read (current_round,
\* entries_count and creator are informational only).
RaceState(id, started, finished, type, st) ==
    [race_id |-> id, race_started |-> started, race_finished |-> finished,
     race_type |-> type, start_time |-> st]

\* start_time_opt on the wire: the "vec" of an Option<u64>, empty or one value.
OptionVecs == {<<>>, <<0>>, <<BootTime>>, <<BootTime + 1>>}

\* A get_race_state view response: its number of fields and the fields read.
ViewResponse(n, started, finished, type, vec) ==
    [arity |-> n, race_started |-> started, race_finished |-> finished,
     race_type |-> type, start_time_opt |-> vec]

ViewResponses ==
    {ViewResponse(STATE_ARITY, s, f, ty, v) :
        s \in BOOLEAN, f \in BOOLEAN, ty \in {0, QUICK}, v \in OptionVecs}
    \cup {ViewResponse(n, TRUE, FALSE, 0, <<>>) : n \in {0, STATE_ARITY - 1, STATE_ARITY + 1}}

\* _parse_option_u64: None for an empty vec, else its first element.
ParseOptionU64(vec) == IF Len(vec) > 0 THEN Some(vec[1]) ELSE None

\* A decoder that checks only for too few fields and ignores extra ones.
DecodeRaceStateLenient(id, resp) ==
    IF resp.arity < STATE_ARITY THEN None
    ELSE Some(RaceState(id, resp.race_started, resp.race_finished,
                        resp.race_type, ParseOptionU64(resp.start_time_opt)))

\* get_race_state, after the view call returned: None unless the response has
\* exactly 13 fields (fewer: line 132; more: the tuple unpacking raises and the
\* except clause returns None).
DecodeRaceState(id, resp) ==
    IF resp.arity < STATE_ARITY THEN None
    ELSE IF resp.arity # STATE_ARITY THEN None
    ELSE Some(RaceState(id, resp.race_started, resp.race_finished,
                        resp.race_type, ParseOptionU64(resp.start_time_opt)))

\* ----------------------------------------------------------- cooldown table
\* self.last_advance_time.get(race_id, 0)
TableGet(tab, id) == IF id \in DOMAIN tab THEN tab[id] ELSE 0

TablePut(tab, id, t) ==
    [x \in DOMAIN tab \cup {id} |-> IF x = id THEN t ELSE tab[x]]

\* ------------------------------------------------------------- eligibility
\* The cooldown compared with <= instead of <.
should_advance_race_inclusive(rs, tab, t) ==
    IF ~rs.race_started \/ rs.race_finished THEN FALSE
    ELSE IF t - TableGet(tab, rs.race_id) <= CooldownUs THEN FALSE
    ELSE TRUE

\* should_advance_race: started, not finished, and the last recorded advance
\* (0 when there is none) at least the cooldown ago.
should_advance_race(rs, tab, t) ==
    IF ~rs.race_started \/ rs.race_finished THEN FALSE
    ELSE IF t - TableGet(tab, rs.race_id) < CooldownUs THEN FALSE
    ELSE TRUE

\* The quick-race check without the test of race_type.
can_execute_quick_race_any_type(rs, t) ==
    IF rs.race_started \/ rs.start_time = None \/ rs.start_time = Some(0) THEN FALSE
    ELSE t >= rs.start_time[1]

\* `not race_state.start_time` is true for None and for 0.
can_execute_quick_race(rs, t) ==
    IF rs.race_type # QUICK THEN FALSE
    ELSE IF rs.race_started \/ rs.start_time = None \/ rs.start_time = Some(0) THEN FALSE
    ELSE t >= rs.start_time[1]

\* process_race, lines 246-255: the if / elif.
ProcessDecisionElse(sa, cq) == IF sa THEN "advance" ELSE "execute"

ProcessDecision(sa, cq) ==
    IF sa THEN "advance" ELSE IF cq THEN "execute" ELSE "none"

\* ------------------------------------------------------------------- state
VARIABLES
    now,               \* wall clock, microseconds
    ticks,             \* clock advances so far (bounds the behaviour)
    key_present,       \* BOT_PRIVATE_KEY is set in the environment
    server,            \* FastAPI lifecycle: "init", "up", "down"
    runner_task,       \* BotRunner.task: "none", "running", "done"
    bot,               \* BotRunner.bot has been constructed
    loop_pc,           \* monitor_races: "none", "query", "join", "sleep", "cancelled"
    cycle_err,         \* what went wrong in this cycle: "none", "query_failed", "exception"
    tasks,             \* the per-race tasks of the current cycle (gather's children)
    last_advance_time, \* EquinoxRaceBot.last_advance_time
    tx_lock,           \* EquinoxRaceBot._tx_lock: [locked, waiters]
    ev                 \* scratch record of the stand-alone predicate evaluation

vars == <<now, ticks, key_present, server, runner_task, bot, loop_pc, cycle_err,
          tasks, last_advance_time, tx_lock, ev>>

\* All sequences of race ids of length 0..MaxActive, repetitions included.
ActiveSets == UNION {[1..n -> RaceIds] : n \in 0..MaxActive}

\* A coroutine process_race(race_id) just created by monitor_races line 267:
\* sa and cq are the values of the `if` and `elif` conditions (cq is not
\* evaluated when sa holds), kind the call they select, subs the number of
\* transactions the task has sent, invoked_at the clock when advance_race or
\* execute_quick_race was called (0 outside the call). The snapshot itself
\* is read by nothing after the two conditions and is not kept.
NewTask(id) ==
    [race_id |-> id, pc |-> "fetch", sa |-> FALSE, cq |-> FALSE, kind |-> "none",
     subs |-> 0, outcome |-> "pending", cancelled_at |-> "none", invoked_at |-> 0]

NullEval ==
    [phase |-> "off", id |-> 0, resp |-> ViewResponse(0, FALSE, FALSE, 0, <<>>),
     tab |-> <<>>, t |-> 0, rs |-> None, sa |-> FALSE, cq |-> FALSE, kind |-> "none"]

Init ==
    /\ now = BootTime
    /\ ticks = 0
    /\ key_present \in BOOLEAN
    /\ server = "init"
    /\ runner_task = "none"
    /\ bot = FALSE
    /\ loop_pc = "none"
    /\ cycle_err = "none"
    /\ tasks = <<>>
    /\ last_advance_time = <<>>
    /\ tx_lock = [locked |-> FALSE, waiters |-> <<>>]
    /\ ev = NullEval

\* ------------------------------------------------------------------- lock
\* asyncio.Lock.acquire takes the lock at once only if it is free and nobody
\* waits; otherwise the caller queues (FIFO).
CanAcquireAlways(lock) == TRUE

CanAcquire(lock) == ~lock.locked /\ lock.waiters = <<>>

\* asyncio.Lock.release: the first waiter, if any, is woken and owns the lock.
ReleaseLockNever(lock) == lock

ReleaseLock(lock) ==
    IF lock.waiters = <<>> THEN [locked |-> FALSE, waiters |-> <<>>]
    ELSE [locked |-> TRUE, waiters |-> Tail(lock.waiters)]

WakeHeadNone(ts, lock) == ts

WakeHead(ts, lock) ==
    IF lock.waiters = <<>> THEN ts
    ELSE [ts EXCEPT ![Head(lock.waiters)].pc = "sign"]

\* advance_race lines 204-214: the table after the lock section ended, with
\* or without an exception.
TableAfterAdvanceOptimistic(tab, id, t, ok) == TablePut(tab, id, t)

TableAfterAdvance(tab, id, t, ok) == IF ok THEN TablePut(tab, id, t) ELSE tab

\* gather(..., return_exceptions=True): a child's failure leaves its siblings
\* running.
SiblingsAfterFailureCancel(ts, i) ==
    [j \in DOMAIN ts |->
        IF j # i /\ ts[j].pc \notin {"done", "cancelled"}
        THEN [ts[j] EXCEPT !.cancelled_at = ts[j].pc, !.pc = "cancelled",
                           !.outcome = "cancelled"]
        ELSE ts[j]]

SiblingsAfterFailure(ts, i) == ts

\* get_active_races lines 123-125 and monitor_races lines 273-275: where the
\* loop goes after an error.
AfterCycleErrorEnds == "ended"

AfterCycleError == "sleep"

\* -------------------------------------------------------------- supervisor
\* `if not private_key: return`, in BotRunner.start and in main alike.
HasKeyAlways(key) == TRUE

HasKey(key) == key

\* GET /health: bot_running = bool(runner.task and not runner.task.done()).
health_bot_running_ignores_done == runner_task # "none"

health_bot_running == runner_task # "none" /\ runner_task # "done"

\* on_startup -> BotRunner.start: without the key nothing is constructed.
Start ==
    /\ server = "init"
    /\ server' = "up"
    /\ IF HasKey(key_present)
       THEN /\ bot' = TRUE
            /\ runner_task' = "running"
            /\ loop_pc' = "query"
       ELSE UNCHANGED <<bot, runner_task, loop_pc>>
    /\ UNCHANGED <<now, ticks, key_present, cycle_err, tasks, last_advance_time,
                   tx_lock, ev>>

\* A task that was suspended at an await when the cancellation arrived.
CancelTask(t) ==
    IF t.pc \in {"done", "cancelled"} THEN t
    ELSE [t EXCEPT !.cancelled_at = t.pc, !.pc = "cancelled", !.outcome = "cancelled"]

\* on_shutdown -> BotRunner.stop: task.cancel() reaches monitor_races at its
\* await (the view call, gather or sleep); a cancelled gather cancels every
\* child that has not finished; each child gets CancelledError at its own
\* await, `async with` releases the lock, and no except clause catches it.
Stop ==
    /\ server = "up"
    /\ runner_task = "running" \/ loop_pc = "none"
    /\ server' = "down"
    /\ IF runner_task = "running"
       THEN /\ runner_task' = "done"
            /\ loop_pc' = "cancelled"
            /\ tasks' = [i \in DOMAIN tasks |-> CancelTask(tasks[i])]
            /\ tx_lock' = [locked |-> FALSE, waiters |-> <<>>]
       ELSE UNCHANGED <<runner_task, loop_pc, tasks, tx_lock>>
    /\ UNCHANGED <<now, ticks, key_present, bot, cycle_err, last_advance_time, ev>>

\* main(): the same process started from the command line. There is no
\* BotRunner, so runner_task stays "none"; without the key main returns at
\* once, with it the bot is constructed and asyncio.run(bot.run()) runs
\* monitor_races.
Main ==
    /\ server = "init"
    /\ IF HasKey(key_present)
       THEN /\ server' = "up"
            /\ bot' = TRUE
            /\ loop_pc' = "query"
       ELSE /\ server' = "down"
            /\ UNCHANGED <<bot, loop_pc>>
    /\ UNCHANGED <<now, ticks, key_present, runner_task, cycle_err, tasks,
                   last_advance_time, tx_lock, ev>>

\* KeyboardInterrupt under asyncio.run: the loop's task and every child
\* still running are cancelled, as in Stop.
Interrupt ==
    /\ server = "up"
    /\ runner_task = "none"
    /\ loop_pc # "none"
    /\ server' = "down"
    /\ loop_pc' = "cancelled"
    /\ tasks' = [i \in DOMAIN tasks |-> CancelTask(tasks[i])]
    /\ tx_lock' = [locked |-> FALSE, waiters |-> <<>>]
    /\ UNCHANGED <<now, ticks, key_present, runner_task, bot, cycle_err,
                   last_advance_time, ev>>

\* ---------------------------------------------------------- monitoring loop
\* get_active_races returned the list `active`; one coroutine per element is
\* handed to gather. An empty gather is complete at once and the loop sleeps.
QueryReturn(active) ==
    /\ loop_pc = "query"
    /\ tasks' = [i \in DOMAIN active |-> NewTask(active[i])]
    /\ loop_pc' = IF active = <<>> THEN "sleep" ELSE "join"
    /\ UNCHANGED <<now, ticks, key_present, server, runner_task, bot, cycle_err,
                   last_advance_time, tx_lock, ev>>

\* get_active_races caught an exception and returned []: nothing to gather.
QueryFail ==
    /\ loop_pc = "query"
    /\ tasks' = <<>>
    /\ cycle_err' = "query_failed"
    /\ loop_pc' = AfterCycleError
    /\ UNCHANGED <<now, ticks, key_present, server, runner_task, bot,
                   last_advance_time, tx_lock, ev>>

\* An exception raised in the cycle body after the query returned and before
\* the fan-out (lines 264-267) lands in the except clause of line 273, which
\* sleeps.
CycleException ==
    /\ loop_pc = "query"
    /\ tasks' = <<>>
    /\ cycle_err' = "exception"
    /\ loop_pc' = AfterCycleError
    /\ UNCHANGED <<now, ticks, key_present, server, runner_task, bot,
                   last_advance_time, tx_lock, ev>>

\* gather returns once every child has finished.
JoinDone ==
    /\ loop_pc = "join"
    /\ \A i \in DOMAIN tasks : tasks[i].pc = "done"
    /\ loop_pc' = "sleep"
    /\ UNCHANGED <<now, ticks, key_present, server, runner_task, bot, cycle_err,
                   tasks, last_advance_time, tx_lock, ev>>

\* asyncio.sleep(BOT_CHECK_INTERVAL) returned: next iteration of `while True`.
SleepDone ==
    /\ loop_pc = "sleep"
    /\ loop_pc' = "query"
    /\ tasks' = <<>>
    /\ cycle_err' = "none"
    /\ UNCHANGED <<now, ticks, key_present, server, runner_task, bot,
                   last_advance_time, tx_lock, ev>>

\* ------------------------------------------------------------ per-race task
Complete(ts, i, out) ==
    [ts EXCEPT ![i].pc = "done", ![i].outcome = out, ![i].invoked_at = 0]

\* The get_race_state view call of task i returned `resp`. Everything up to
\* the next await runs in the same step: decoding, both predicates, and in
\* advance_race / execute_quick_race the entry into `async with self._tx_lock`.
FetchReturn(i, resp) ==
    /\ loop_pc = "join"
    /\ i \in DOMAIN tasks
    /\ tasks[i].pc = "fetch"
    /\ LET id == tasks[i].race_id
           rso == DecodeRaceState(id, resp)
       IN IF rso = None
          THEN /\ tasks' = SiblingsAfterFailure(Complete(tasks, i, "skipped"), i)
               /\ UNCHANGED tx_lock
          ELSE LET rs == rso[1]
                   sa == should_advance_race(rs, last_advance_time, now)
                   cq == IF sa THEN FALSE ELSE can_execute_quick_race(rs, now)
                   kind == ProcessDecision(sa, cq)
                   t == [tasks[i] EXCEPT !.sa = sa, !.cq = cq, !.kind = kind,
                                         !.invoked_at = IF kind = "none" THEN 0 ELSE now]
               IN IF kind = "none"
                  THEN /\ tasks' = Complete([tasks EXCEPT ![i] = t], i, "noop")
                       /\ UNCHANGED tx_lock
                  ELSE IF CanAcquire(tx_lock)
                  THEN /\ tasks' = [tasks EXCEPT ![i] = [t EXCEPT !.pc = "sign"]]
                       /\ tx_lock' = [tx_lock EXCEPT !.locked = TRUE]
                  ELSE /\ tasks' = [tasks EXCEPT ![i] = [t EXCEPT !.pc = "wait_lock"]]
                       /\ tx_lock' = [tx_lock EXCEPT !.waiters = Append(@, i)]
    /\ UNCHANGED <<now, ticks, key_present, server, runner_task, bot, loop_pc,
                   cycle_err, last_advance_time, ev>>

\* The view call raised (or its JSON did not parse): get_race_state returns
\* None and process_race returns.
FetchFail(i) ==
    /\ loop_pc = "join"
    /\ i \in DOMAIN tasks
    /\ tasks[i].pc = "fetch"
    /\ tasks' = SiblingsAfterFailure(Complete(tasks, i, "skipped"), i)
    /\ UNCHANGED <<now, ticks, key_present, server, runner_task, bot, loop_pc,
                   cycle_err, last_advance_time, tx_lock, ev>>

\* create_bcs_signed_transaction returned: submit_and_wait_for_bcs_transaction
\* sends the transaction and waits for it.
SignReturn(i) ==
    /\ loop_pc = "join"
    /\ i \in DOMAIN tasks
    /\ tasks[i].pc = "sign"
    /\ tasks' = [tasks EXCEPT ![i].pc = "submit", ![i].subs = @ + 1]
    /\ UNCHANGED <<now, ticks, key_present, server, runner_task, bot, loop_pc,
                   cycle_err, last_advance_time, tx_lock, ev>>

\* Only advance_race has the write of line 208; execute_quick_race (lines
\* 228-233) has none.
RecordsCooldownAny(kind) == TRUE

RecordsCooldown(kind) == kind = "advance"

\* The lock section of task i ended (ok: both calls returned; ~ok: one of them
\* raised). The lock is released, advance_race records the time on success
\* only, and the coroutine returns to process_race, which returns.
EndLockSection(i, ok) ==
    /\ tasks' = LET ts == WakeHead(Complete(tasks, i, IF ok THEN "ok" ELSE "failed"), tx_lock)
                IN IF ok THEN ts ELSE SiblingsAfterFailure(ts, i)
    /\ tx_lock' = ReleaseLock(tx_lock)
    /\ last_advance_time' =
          IF RecordsCooldown(tasks[i].kind)
          THEN TableAfterAdvance(last_advance_time, tasks[i].race_id, now, ok)
          ELSE last_advance_time
    /\ UNCHANGED <<now, ticks, key_present, server, runner_task, bot, loop_pc,
                   cycle_err, ev>>

SignFail(i) ==
    /\ loop_pc = "join"
    /\ i \in DOMAIN tasks
    /\ tasks[i].pc = "sign"
    /\ EndLockSection(i, FALSE)

SubmitConfirmed(i) ==
    /\ loop_pc = "join"
    /\ i \in DOMAIN tasks
    /\ tasks[i].pc = "submit"
    /\ EndLockSection(i, TRUE)

SubmitFail(i) ==
    /\ loop_pc = "join"
    /\ i \in DOMAIN tasks
    /\ tasks[i].pc = "submit"
    /\ EndLockSection(i, FALSE)

\* -------------------------------------------------------------------- clock
Tick(d) ==
    /\ ticks < MaxTicks
    /\ ticks' = ticks + 1
    /\ now' = now + d
    /\ UNCHANGED <<key_present, server, runner_task, bot, loop_pc, cycle_err,
                   tasks, last_advance_time, tx_lock, ev>>

Next ==
    \/ Start
    \/ Stop
    \/ Main
    \/ Interrupt
    \/ \E active \in ActiveSets : QueryReturn(active)
    \/ QueryFail
    \/ CycleException
    \/ JoinDone
    \/ SleepDone
    \/ \E i \in 1..MaxActive, resp \in ViewResponses : FetchReturn(i, resp)
    \/ \E i \in 1..MaxActive : FetchFail(i)
    \/ \E i \in 1..MaxActive : SignReturn(i)
    \/ \E i \in 1..MaxActive : SignFail(i)
    \/ \E i \in 1..MaxActive : SubmitConfirmed(i)
    \/ \E i \in 1..MaxActive : SubmitFail(i)
    \/ \E d \in TickSteps : Tick(d)

Spec == Init /\ [][Next]_vars

\* ------------------------------------------- the predicates on their own
\* The synchronous part of process_race (decode, should_advance_race,
\* can_execute_quick_race, the if / elif) applied to inputs drawn from the
\* sets below: a view response, a cooldown table and a clock value.
EvalVecs == {<<>>, <<0>>, <<1>>, <<BootTime>>, <<BootTime + 1>>, <<BootTime + CooldownUs>>}

EvalResponses ==
    {ViewResponse(STATE_ARITY, s, f, ty, v) :
        s \in BOOLEAN, f \in BOOLEAN, ty \in {0, QUICK, 2}, v \in EvalVecs}
    \cup {ViewResponse(n, TRUE, FALSE, 0, <<>>) : n \in {0, STATE_ARITY - 1, STATE_ARITY + 1}}

EvalTimes ==
    {BootTime + d : d \in {0, 1, 2, CooldownUs - 1, CooldownUs, CooldownUs + 1,
                           2 * CooldownUs}}

\* The empty table, or one entry written at a time the clock has shown.
EvalTables(t) ==
    {<<>>} \cup {TablePut(<<>>, id, T) : id \in RaceIds, T \in {x \in EvalTimes : x <= t}}

EvalInit ==
    /\ now = BootTime
    /\ ticks = 0
    /\ key_present = TRUE
    /\ server = "init"
    /\ runner_task = "none"
    /\ bot = FALSE
    /\ loop_pc = "none"
    /\ cycle_err = "none"
    /\ tasks = <<>>
    /\ last_advance_time = <<>>
    /\ tx_lock = [locked |-> FALSE, waiters |-> <<>>]
    /\ \E id \in RaceIds, resp \in EvalResponses, t \in EvalTimes :
         \E tab \in EvalTables(t) :
            ev = [NullEval EXCEPT !.phase = "in", !.id = id, !.resp = resp,
                                  !.tab = tab, !.t = t]

EvalFrame ==
    UNCHANGED <<now, ticks, key_present, server, runner_task, bot, loop_pc,
                cycle_err, tasks, last_advance_time, tx_lock>>

\* get_race_state on the response.
EvalDecode ==
    /\ ev.phase = "in"
    /\ ev' = [ev EXCEPT !.phase = "decoded", !.rs = DecodeRaceState(ev.id, ev.resp)]
    /\ EvalFrame

\* process_race lines 242-255 on the decoded snapshot; None is skipped.
EvalDecide ==
    /\ ev.phase = "decoded"
    /\ IF ev.rs = None
       THEN ev' = [ev EXCEPT !.phase = "skipped"]
       ELSE LET rs == ev.rs[1]
                sa == should_advance_race(rs, ev.tab, ev.t)
                cq == can_execute_quick_race(rs, ev.t)
            IN ev' = [ev EXCEPT !.phase = "decided", !.sa = sa, !.cq = cq,
                                !.kind = ProcessDecision(sa, cq)]
    /\ EvalFrame

EvalNext == EvalDecode \/ EvalDecide

EvalSpec == EvalInit /\ [][EvalNext]_vars

\* Fairness: the event loop runs a timer that has expired, so the sleep that
\* ends a cycle returns.
FairSpec == Spec /\ WF_vars(SleepDone)

\* What the event loop itself guarantees: a finished gather and an expired
\* sleep resume the loop.
LoopFairness == WF_vars(JoinDone) /\ WF_vars(SleepDone)

\* The active-set query and the state query of every task return, with a
\* result or an error.
QueryFairness ==
    /\ WF_vars((\E active \in ActiveSets : QueryReturn(active)) \/ QueryFail \/ CycleException)
    /\ \A i \in 1..MaxActive :
          WF_vars((\E resp \in ViewResponses : FetchReturn(i, resp)) \/ FetchFail(i))

\* create_bcs_signed_transaction returns, with a result or an error.
SignFairness == \A i \in 1..MaxActive : WF_vars(SignReturn(i) \/ SignFail(i))

\* submit_and_wait_for_bcs_transaction returns, with a result or an error.
SubmitFairness == \A i \in 1..MaxActive : WF_vars(SubmitConfirmed(i) \/ SubmitFail(i))

\* Every call returns except, possibly, a submit / confirm call: nothing in
\* the code bounds the time that call may take.
HangSpec == Spec /\ LoopFairness /\ QueryFairness /\ SignFairness

\* Every network call returns.
LiveSpec == Spec /\ LoopFairness /\ QueryFairness /\ SignFairness /\ SubmitFairness

\* ------------------------------------------------------------------ claims
InLockSection(t) == t.pc \in {"sign", "submit"}

Dispatching(t) == t.pc \in {"wait_lock", "sign", "submit"}

\* C1: at most one per-race task is inside the sign + submit + await section
\* at any time, however many tasks of the cycle are trying to submit.
C1_OneSubmissionAtATime ==
    Cardinality({i \in DOMAIN tasks : InLockSection(tasks[i])}) <= 1

\* C1 witness: one task is waiting for confirmation while another queues
\* for the lock.
C1_Witness ==
    \E i, j \in DOMAIN tasks : tasks[i].pc = "submit" /\ tasks[j].pc = "wait_lock"

\* C2 (as claimed): for a snapshot with race_finished both predicates are
\* false and process_race dispatches nothing.
C2_FinishedNeverActedOn ==
    (ev.phase = "decided" /\ ev.rs[1].race_finished)
        => (~ev.sa /\ ~ev.cq /\ ev.kind = "none")

\* C3: with an entry T <= now in the cooldown table for the race,
\* should_advance_race is false while now < T + cooldown, and true from
\* T + cooldown on when the snapshot is started and not finished.
C3_Cooldown ==
    (ev.phase = "decided" /\ ev.id \in DOMAIN ev.tab /\ ev.tab[ev.id] <= ev.t)
        => /\ (ev.t < ev.tab[ev.id] + CooldownUs) => ~ev.sa
           /\ (/\ ev.t >= ev.tab[ev.id] + CooldownUs
               /\ ev.rs[1].race_started
               /\ ~ev.rs[1].race_finished) => ev.sa

\* C3 witness: the predicate was evaluated exactly at T + cooldown on a
\* started, unfinished race and returned true.
C3_Witness ==
    /\ ev.phase = "decided"
    /\ ev.id \in DOMAIN ev.tab
    /\ ev.t = ev.tab[ev.id] + CooldownUs
    /\ ev.sa

\* C4: the cooldown table is written only in the step in which an advance
\* is confirmed, and a step in which a dispatch fails leaves the table as it
\* was.
C4_WriteOnlyAfterSuccess ==
    [][/\ last_advance_time' # last_advance_time =>
            \E i \in DOMAIN tasks :
                /\ tasks[i].kind = "advance"
                /\ tasks[i].pc = "submit"
                /\ tasks'[i].pc = "done"
                /\ tasks'[i].outcome = "ok"
                /\ last_advance_time' =
                       TablePut(last_advance_time, tasks[i].race_id, now)
       /\ \A i \in DOMAIN tasks :
            (/\ DOMAIN tasks' = DOMAIN tasks
             /\ tasks[i].outcome = "pending"
             /\ tasks'[i].outcome = "failed") =>
                last_advance_time' = last_advance_time]_vars

\* C4 witness: an advance has failed and its race has no cooldown entry.
C4_Witness ==
    \E i \in DOMAIN tasks :
        /\ tasks[i].kind = "advance"
        /\ tasks[i].outcome = "failed"
        /\ tasks[i].race_id \notin DOMAIN last_advance_time

\* C5: one invocation of process_race sends at most one transaction; it is
\* an advance exactly when should_advance_race held, an execute exactly when
\* should_advance_race did not hold and can_execute_quick_race did, and
\* nothing otherwise.
C5_AtMostOneAdvanceFirst ==
    \A i \in DOMAIN tasks :
        LET t == tasks[i] IN
        /\ t.subs <= 1
        /\ t.kind = "advance" <=> t.sa
        /\ t.kind = "execute" <=> (~t.sa /\ t.cq)
        /\ t.kind = "none" => (t.subs = 0 /\ ~Dispatching(t))

\* C5 witness: an advance has failed after its one transaction, and an
\* execute is in flight for another task.
C5_Witness ==
    \E i, j \in DOMAIN tasks :
        /\ tasks[i].kind = "advance" /\ tasks[i].outcome = "failed" /\ tasks[i].subs = 1
        /\ tasks[j].kind = "execute" /\ tasks[j].pc = "submit"

\* C6 (as claimed): no advance is in the lock section for a race whose
\* recorded advance is younger than the cooldown, and at most one advance
\* dispatch per race id is in progress.
C6_OneAdvancePerCooldown ==
    /\ \A i \in DOMAIN tasks :
          (/\ tasks[i].kind = "advance"
           /\ InLockSection(tasks[i])
           /\ tasks[i].race_id \in DOMAIN last_advance_time) =>
              now >= last_advance_time[tasks[i].race_id] + CooldownUs
    /\ \A r \in RaceIds :
          Cardinality({i \in DOMAIN tasks :
              /\ tasks[i].race_id = r
              /\ tasks[i].kind = "advance"
              /\ Dispatching(tasks[i])}) <= 1

\* C7 (as claimed): for a QUICK snapshot that is not started and whose
\* start_time is present with value S, can_execute_quick_race is true
\* exactly when now >= S.
C7_SingleThreshold ==
    (/\ ev.phase = "decided"
     /\ ev.rs[1].race_type = QUICK
     /\ ~ev.rs[1].race_started
     /\ Len(ev.resp.start_time_opt) = 1) =>
        (ev.cq <=> ev.t >= ev.resp.start_time_opt[1])

\* C8: a step in which one task fails (state query or transaction) changes
\* no other task of the cycle, except that the task next in line for the lock
\* gets it; only the shutdown cancels a task; and the join returns only when
\* every task has finished with an outcome of its own.
C8_FailureIsolation ==
    /\ [](/\ \A i \in DOMAIN tasks : tasks[i].pc = "cancelled" => server = "down"
          /\ loop_pc = "sleep" =>
                \A i \in DOMAIN tasks :
                    tasks[i].outcome \in {"ok", "failed", "noop", "skipped"})
    /\ [][\A i, j \in DOMAIN tasks :
            (/\ i # j
             /\ DOMAIN tasks' = DOMAIN tasks
             /\ tasks[i].outcome = "pending"
             /\ tasks'[i].outcome \in {"failed", "skipped"}) =>
                \/ tasks'[j] = tasks[j]
                \/ /\ tasks[j].pc = "wait_lock"
                   /\ tasks'[j] = [tasks[j] EXCEPT !.pc = "sign"]]_vars

\* C8 witness: the join has returned with one task failed and its sibling
\* confirmed.
C8_Witness ==
    /\ loop_pc = "sleep"
    /\ \E i, j \in DOMAIN tasks :
          tasks[i].outcome = "failed" /\ tasks[j].outcome = "ok"

\* C9: while the background task runs the loop is querying, joining or
\* sleeping; it stops only by cancellation at shutdown; a cycle that hit an
\* error sleeps, and a next cycle follows unless the loop is cancelled.
C9_LoopSurvivesErrors ==
    /\ [](/\ runner_task = "running" => loop_pc \in {"query", "join", "sleep"}
          /\ loop_pc \notin {"none", "query", "join", "sleep"} =>
                (loop_pc = "cancelled" /\ server = "down")
          /\ (cycle_err # "none" /\ runner_task = "running") => loop_pc = "sleep")
    /\ (cycle_err # "none") ~> (loop_pc = "query" \/ loop_pc = "cancelled")

\* C9 witness: the active-set query failed and the loop is sleeping.
C9_Witness ==
    /\ cycle_err = "query_failed"
    /\ loop_pc = "sleep"
    /\ runner_task = "running"

\* C10 (as claimed): no task is cancelled while its transaction is in
\* flight.
C10_InFlightCompletes ==
    \A i \in DOMAIN tasks :
        tasks[i].pc = "cancelled" => tasks[i].cancelled_at # "submit"

\* C11 (as claimed): a task that is waiting in the submit / confirm call
\* leaves the lock section eventually, also when the call never returns.
C11_LockSectionBounded ==
    \A i \in 1..MaxActive :
        (i \in DOMAIN tasks /\ tasks[i].pc = "submit")
            ~> ~(i \in DOMAIN tasks /\ tasks[i].pc = "submit")

\* C12: a view response that is missing or has fewer or more than 13 fields
\* decodes to None: no RaceState is built, neither predicate is evaluated and
\* process_race dispatches nothing.
C12_ArityMismatchSkipped ==
    (ev.phase \in {"decoded", "skipped", "decided"} /\ ev.resp.arity # STATE_ARITY)
        => /\ ev.rs = None
           /\ ev.phase # "decided"
           /\ ev.kind = "none"
           /\ ~ev.sa /\ ~ev.cq

\* C12 witness: process_race returned without a decision on a response of
\* 14 fields.
C12_Witness ==
    /\ ev.phase = "skipped"
    /\ ev.resp.arity = STATE_ARITY + 1

\* C13: GET /health reports bot_running exactly when the supervisor's
\* background task exists and has not ended: false before start, false when
\* start found no key, true while the loop runs under the supervisor (cycle
\* errors included), false once stop has completed.
C13_HealthReflectsTask ==
    /\ health_bot_running <=> runner_task = "running"
    /\ health_bot_running => (bot /\ key_present /\ server = "up"
                                  /\ loop_pc \in {"query", "join", "sleep"})
    /\ server = "init" => ~health_bot_running
    /\ ~key_present => ~health_bot_running
    /\ server = "down" => ~health_bot_running
    /\ (runner_task # "none" /\ loop_pc \in {"query", "join", "sleep"})
          => health_bot_running

\* C13 witness: stop has completed after the loop had been running, and
\* bot_running is false.
C13_Witness ==
    /\ runner_task = "done"
    /\ server = "down"
    /\ ~health_bot_running

\* C14: without BOT_PRIVATE_KEY no bot is constructed, no background task
\* exists, the loop never leaves its initial position, no per-race task is
\* created and nothing is written or locked, whichever entry point ran.
C14_NoKeyNoLoop ==
    ~key_present =>
        /\ ~bot
        /\ runner_task = "none"
        /\ loop_pc = "none"
        /\ tasks = <<>>
        /\ last_advance_time = <<>>
        /\ tx_lock = [locked |-> FALSE, waiters |-> <<>>]

\* C14 witness: the entry point has run without the key.
C14_Witness ==
    /\ ~key_present
    /\ server # "init"

\* C15 (as claimed): while a race has no cooldown entry at most one advance
\* is invoked for its race id, and the confirmation of that advance sets the
\* entry to the time at which advance_race was invoked.
C15_OnceAtInvocationTime ==
    /\ [](\A r \in RaceIds :
            r \notin DOMAIN last_advance_time =>
                Cardinality({i \in DOMAIN tasks :
                    tasks[i].race_id = r /\ tasks[i].kind = "advance"}) <= 1)
    /\ [][\A i \in DOMAIN tasks :
            (/\ DOMAIN tasks' = DOMAIN tasks
             /\ tasks[i].kind = "advance"
             /\ tasks[i].pc = "submit"
             /\ tasks'[i].outcome = "ok"
             /\ tasks[i].race_id \notin DOMAIN last_advance_time) =>
                last_advance_time'[tasks[i].race_id] = tasks[i].invoked_at]_vars

\* The second half of C15 alone: the recorded value is the invocation time.
C15_RecordedAtInvocation ==
    [][\A i \in DOMAIN tasks :
            (/\ DOMAIN tasks' = DOMAIN tasks
             /\ tasks[i].kind = "advance"
             /\ tasks[i].pc = "submit"
             /\ tasks'[i].outcome = "ok") =>
                last_advance_time'[tasks[i].race_id] = tasks[i].invoked_at]_vars

\* C16: for a snapshot that is not started and is not of type QUICK neither
\* predicate is true and process_race dispatches nothing.
C16_NotStartedNotQuickIdle ==
    (/\ ev.phase = "decided"
     /\ ~ev.rs[1].race_started
     /\ ev.rs[1].race_type # QUICK) =>
        (~ev.sa /\ ~ev.cq /\ ev.kind = "none")

\* C16 witness: a snapshot of another type, not started, whose start_time
\* has passed, was evaluated.
C16_Witness ==
    /\ ev.phase = "decided"
    /\ ~ev.rs[1].race_started
    /\ ev.rs[1].race_type = 2
    /\ ev.rs[1].start_time # None
    /\ ev.rs[1].start_time[1] > 0
    /\ ev.t >= ev.rs[1].start_time[1]

\* C17: the cooldown table never loses a key; an entry appears or changes
\* only in the step that confirms an advance of that very race id; and the
\* completion of an execute_quick_race, confirmed or failed, leaves the whole
\* table as it was.
C17_TableFrame ==
    [][/\ DOMAIN last_advance_time \subseteq DOMAIN last_advance_time'
       /\ \A r \in DOMAIN last_advance_time' :
            (r \notin DOMAIN last_advance_time
                \/ last_advance_time'[r] # last_advance_time[r]) =>
                \E i \in DOMAIN tasks :
                    /\ tasks[i].race_id = r
                    /\ tasks[i].kind = "advance"
                    /\ tasks[i].pc = "submit"
                    /\ tasks'[i].outcome = "ok"
       /\ \A i \in DOMAIN tasks :
            (/\ DOMAIN tasks' = DOMAIN tasks
             /\ tasks[i].kind = "execute"
             /\ tasks[i].outcome = "pending"
             /\ tasks'[i].outcome \in {"ok", "failed"}) =>
                last_advance_time' = last_advance_time]_vars

\* C17 witness: an execute_quick_race was confirmed for a race that has no
\* entry while another race has one.
C17_Witness ==
    /\ last_advance_time # <<>>
    /\ \E i \in DOMAIN tasks :
          /\ tasks[i].kind = "execute"
          /\ tasks[i].outcome = "ok"
          /\ tasks[i].race_id \notin DOMAIN last_advance_time

\* C18 (as claimed): a failed advance carries at most one transaction in its
\* cycle, and once the cycle is over and the loop sleeps, the cooldown table
\* lets should_advance_race be true for that race (taken to be still started
\* and not finished) as soon as the next cycle can start, BOT_CHECK_INTERVAL
\* later.
C18_FailedAdvanceRetriedNextCycle ==
    \A i \in DOMAIN tasks :
        (tasks[i].kind = "advance" /\ tasks[i].outcome = "failed") =>
            /\ tasks[i].subs <= 1
            /\ loop_pc = "sleep" =>
                  should_advance_race(
                      RaceState(tasks[i].race_id, TRUE, FALSE, 0, None),
                      last_advance_time, now + CheckIntervalUs)

\* C19: the lock is held exactly while some per-race task is inside a lock
\* section, whichever way the previous sections ended (confirmation,
\* exception, cancellation); the lock's queue holds exactly the tasks that
\* wait for it, each once; and a task waits only while another task is
\* inside its section.
C19_LockReleasedOnEveryExit ==
    /\ tx_lock.locked <=> \E i \in DOMAIN tasks : InLockSection(tasks[i])
    /\ \A k \in DOMAIN tx_lock.waiters :
          /\ tx_lock.waiters[k] \in DOMAIN tasks
          /\ tasks[tx_lock.waiters[k]].pc = "wait_lock"
          /\ \A m \in DOMAIN tx_lock.waiters :
                tx_lock.waiters[m] = tx_lock.waiters[k] => m = k
    /\ \A i \in DOMAIN tasks :
          tasks[i].pc = "wait_lock" =>
              /\ \E k \in DOMAIN tx_lock.waiters : tx_lock.waiters[k] = i
              /\ tx_lock.locked

\* C19 witness: a dispatch has failed inside its lock section, and a sibling
\* got the lock after it and is inside its own section.
C19_Witness ==
    \E i, j \in DOMAIN tasks :
        /\ tasks[i].kind # "none"
        /\ tasks[i].outcome = "failed"
        /\ InLockSection(tasks[j])
        /\ tx_lock.waiters = <<>>

\* C20: when every network call returns, a task that waits for the lock gets
\* it (or is cancelled by the shutdown), every task of a cycle finishes, the
\* join returns, and a next cycle begins unless the loop is cancelled.
C20_EveryCycleCompletes ==
    /\ \A i \in 1..MaxActive :
          (i \in DOMAIN tasks /\ tasks[i].pc = "wait_lock")
              ~> (i \in DOMAIN tasks /\ tasks[i].pc \in {"sign", "cancelled"})
    /\ \A i \in 1..MaxActive :
          (i \in DOMAIN tasks /\ tasks[i].pc \notin {"done", "cancelled"})
              ~> (i \in DOMAIN tasks /\ tasks[i].pc \in {"done", "cancelled"})
    /\ (loop_pc = "join") ~> (loop_pc = "sleep" \/ loop_pc = "cancelled")
    /\ (loop_pc = "join") ~> (loop_pc = "query" \/ loop_pc = "cancelled")

\* C20 witness: a task queues for the lock while a sibling launched after it
\* is signing inside the lock section.
C20_Witness ==
    \E i, j \in DOMAIN tasks :
        /\ i < j
        /\ tasks[i].pc = "wait_lock"
        /\ tasks[j].pc = "sign"

====
